---- MODULE Spec2Model ----
(***************************************************************************)
(* Model of util/get_iedb_epitopes.py: the download check (get_epitopes),  *)
(* the filtering and de-duplication of the IEDB T-cell table               *)
(* (filter_epitopes) and the orchestration (make_epitope_dataset).         *)
(*                                                                         *)
(* A pandas DataFrame is modelled by the raw table (a sequence of rows,    *)
(* position = index label given by read_csv) together with the sequence of *)
(* index labels it currently holds, in order: no step before the           *)
(* projection changes a cell, they only select and reorder rows.           *)
(* A text cell is a string, an IRI is a sequence of one-character strings  *)
(* (so that split('/') can be computed), an empty cell is NaN.             *)
(***************************************************************************)
EXTENDS Integers, Sequences, FiniteSets, TLC

VARIABLES
    pc,      \* where make_epitope_dataset stands, or the error that ended it
    status,  \* the HTTP status retrieve_from_url returned
    size,    \* the size in bytes of the downloaded file
    table,   \* the table read_csv read from the archive
    idx,     \* the index labels of the filtered df, before reset_index
    df,      \* the table filter_epitopes returned
    csv      \* the output file iedb_immepitopes.csv

vars == <<pc, status, size, table, idx, df, csv>>

\* ---------------------------------------------------------------- bounds
\* longest table whose rows all describe one peptide
MaxDupRows == 3
\* longest table of rows of two peptides
MaxRows == 4
\* longest table with rows that fail the initial filter
MaxFilterRows == 3
\* longest generated Parent Protein IRI
MaxIriLen == 4

\* ------------------------------------------------------- missing values
\* NaN in a text column (an empty cell read by read_csv)
NaN == "<NaN>"
\* NaN in the numeric Response Frequency column
NaNFreq == -1
\* NaN in the Parent Protein IRI column
NaNIri == <<"<NaN>">>

\* ------------------------------------------------------------ get_epitopes
OkStatus == 200
MinSize == 1000000

\* what the server may answer, and how many bytes the saved file may hold
Statuses == {200, 404, 500}
Sizes == {500000, 999999, 1000000, 1000001}

\* a size check that also refuses a file of exactly the minimum size
GetEpitopesOutcome_Strict(s, z) ==
    IF ~(s = OkStatus) THEN "DownloadError"
    ELSE IF z <= MinSize THEN "IncompleteDownload"
    ELSE "downloaded"

\* the outcome of get_epitopes for a status and a file size: the status is
\* tested first, the size of the file only when the status is 200
GetEpitopesOutcome(s, z) ==
    IF ~(s = OkStatus) THEN "DownloadError"
    ELSE IF z < MinSize THEN "IncompleteDownload"
    ELSE "downloaded"

\* --------------------------------------------------------- filter_epitopes
Range(s) == {s[k] : k \in DOMAIN s}

\* the index read_csv gives the table: one label per row, in file order
Labels(t) == [k \in 1..Len(t) |-> k]

HumanHosts == {"Homo sapiens", "Homo sapiens Black", "Homo sapiens Caucasian"}

\* an initial filter that forgets the organism test
PassesFilter_AnyOrganism(r) ==
    /\ r.ot = "Linear peptide"
    /\ r.host \in HumanHosts
    /\ r.proc = "Occurrence of infectious disease"

\* the boolean mask of the initial filter, for one row (== and isin are
\* false on NaN, != is true on NaN)
PassesFilter(r) ==
    /\ r.ot = "Linear peptide"
    /\ r.org # "Homo sapiens"
    /\ r.host \in HumanHosts
    /\ r.proc = "Occurrence of infectious disease"

InitialFilter(t) == SelectSeq(Labels(t), LAMBDA i : PassesFilter(t[i]))

\* the position list 1..Len(ix)
Positions(ix) == [k \in 1..Len(ix) |-> k]

\* a removal that keeps the last row of every pair instead of the first
DropPairDuplicates_KeepLast(t, ix) ==
    LET last(k) ==
            \A j \in (k + 1)..Len(ix) :
                <<t[ix[j]].desc, t[ix[j]].qm>> # <<t[ix[k]].desc, t[ix[k]].qm>>
        pos == SelectSeq(Positions(ix), last)
    IN  [k \in 1..Len(pos) |-> ix[pos[k]]]

\* no removal at all
DropPairDuplicates_None(t, ix) == ix

\* df.drop_duplicates(subset=[Description, Qualitative Measure]): the first
\* row of every pair is kept, the order is kept, NaN equals NaN
DropPairDuplicates(t, ix) ==
    LET first(k) ==
            \A j \in 1..(k - 1) :
                <<t[ix[j]].desc, t[ix[j]].qm>> # <<t[ix[k]].desc, t[ix[k]].qm>>
        pos == SelectSeq(Positions(ix), first)
    IN  [k \in 1..Len(pos) |-> ix[pos[k]]]

\* df[df.duplicated(subset=Description, keep=False)]: every row whose
\* description another row of df also has
Duplicated(t, ix) ==
    SelectSeq(ix, LAMBDA i : \E j \in Range(ix) : j # i /\ t[j].desc = t[i].desc)

\* the peptide descriptions of the inputs, in ascending string order
Peptides == <<"ILKEPVHGV", "SLYNTVATL">>

DescRank(d) ==
    IF d = NaN THEN Len(Peptides) + 1
    ELSE CHOOSE k \in 1..Len(Peptides) : Peptides[k] = d

\* ascending Response Frequency, NaN last
FreqLess(a, b) == a # NaNFreq /\ (b = NaNFreq \/ a < b)

RowLess(r, s) ==
    \/ DescRank(r.desc) < DescRank(s.desc)
    \/ r.desc = s.desc /\ FreqLess(r.rf, s.rf)

\* no sort
SortValues_Unsorted(t, ix) == ix

\* sort_values(by=[Description, Response Frequency]): a lexsort, which keeps
\* the order of rows with equal keys
SortValues(t, ix) ==
    LET n == Len(ix)
        before(j, k) ==
            \/ RowLess(t[ix[j]], t[ix[k]])
            \/ ~RowLess(t[ix[k]], t[ix[j]]) /\ j < k
        place(k) == Cardinality({j \in 1..n : before(j, k)}) + 1
    IN  [p \in 1..n |-> ix[CHOOSE k \in 1..n : place(k) = p]]

\* (Qualitative Measure != 'Negative') & (Response Frequency > 50); a NaN
\* measure differs from 'Negative', a NaN frequency is not > 50
IsPositive(r) == r.qm # "Negative" /\ r.rf # NaNFreq /\ r.rf > 50

PositiveRows(t, ix) == SelectSeq(ix, LAMBDA i : IsPositive(t[i]))

\* every positive candidate kept
DropDescDuplicates_None(t, ix) == ix

\* positive.drop_duplicates(subset=[Description]): the first row of every
\* description, in the sorted order
DropDescDuplicates(t, ix) ==
    LET first(k) == \A j \in 1..(k - 1) : t[ix[j]].desc # t[ix[k]].desc
        pos == SelectSeq(Positions(ix), first)
    IN  [k \in 1..Len(pos) |-> ix[pos[k]]]

\* a final mask whose third clause forgets the Negative test
FinalSelect_AnyMeasure(t, ix, dups, positive) ==
    LET posDesc == {t[i].desc : i \in Range(positive)}
        keep(i) ==
            \/ i \notin Range(dups)
            \/ i \in Range(positive)
            \/ t[i].desc \notin posDesc
    IN  SelectSeq(ix, keep)

\* a final mask without its first clause
FinalSelect_NoUnique(t, ix, dups, positive) ==
    LET posDesc == {t[i].desc : i \in Range(positive)}
        keep(i) ==
            \/ i \in Range(positive)
            \/ t[i].desc \notin posDesc /\ t[i].qm = "Negative"
    IN  SelectSeq(ix, keep)

\* the final mask over df, given dups and positive
FinalSelect(t, ix, dups, positive) ==
    LET posDesc == {t[i].desc : i \in Range(positive)}
        keep(i) ==
            \/ i \notin Range(dups)
            \/ i \in Range(positive)
            \/ t[i].desc \notin posDesc /\ t[i].qm = "Negative"
    IN  SelectSeq(ix, keep)

\* str(x): a NaN cell prints as nan
Str(x) == IF x = NaNIri THEN <<"n", "a", "n">> ELSE x

\* s.split('/'): the list of the pieces between the slashes
RECURSIVE Split(_)
Split(s) ==
    IF \A k \in 1..Len(s) : s[k] # "/" THEN <<s>>
    ELSE LET k == CHOOSE m \in 1..Len(s) :
                      s[m] = "/" /\ \A j \in 1..(m - 1) : s[j] # "/"
         IN  <<SubSeq(s, 1, k - 1)>> \o Split(SubSeq(s, k + 1, Len(s)))

\* the first piece instead of the last
SourceProtein_First(x) == LET parts == Split(Str(x)) IN parts[1]

\* lambda x: str(x).split('/')[-1]
SourceProtein(x) == LET parts == Split(Str(x)) IN parts[Len(parts)]

\* the five output columns of one row
Project(r) ==
    [Peptide        |-> r.desc,
     Immunogenicity |-> r.qm,
     HLA_Allele     |-> r.allele,
     Source_Protein |-> SourceProtein(r.iri),
     Source_Name    |-> r.org]

\* the index labels filter_epitopes keeps, in order (df before reset_index)
KeptLabels(t) ==
    LET df1 == InitialFilter(t)
        df2 == DropPairDuplicates(t, df1)
        dups == SortValues(t, Duplicated(t, df2))
        positive == DropDescDuplicates(t, PositiveRows(t, dups))
    IN  FinalSelect(t, df2, dups, positive)

\* the table filter_epitopes returns, for the labels it keeps
Frame(t, ix) == [k \in 1..Len(ix) |-> Project(t[ix[k]])]

\* ------------------------------------------------------------------ inputs
Measures == {"Negative", "Positive", "Positive-High", NaN}
Freqs == {NaNFreq, 50, 60, 80}

\* the IRI of the example, one character per element
ExampleIri ==
    <<"h", "t", "t", "p", ":", "/", "/", "p", "u", "r", "l", ".",
      "o", "b", "o", "l", "i", "b", "r", "a", "r", "y", ".", "o", "r", "g",
      "/", "o", "b", "o", "/",
      "P", "R", "_", "0", "0", "0", "0", "1", "2", "3", "4", "5">>

SeqsUpTo(S, n) == UNION {[1..k -> S] : k \in 0..n}

\* the generated IRIs: every non-empty string over these characters
IriChars == {"/", "P"}
Iris == {NaNIri, ExampleIri} \cup (SeqsUpTo(IriChars, MaxIriLen) \ {<<>>})

\* a row that passes the initial filter
GoodRow(desc, qm, rf, iri) ==
    [ot |-> "Linear peptide", org |-> "Human immunodeficiency virus 1",
     host |-> "Homo sapiens", proc |-> "Occurrence of infectious disease",
     desc |-> desc, qm |-> qm, rf |-> rf,
     allele |-> "HLA-A*02:01", iri |-> iri]

\* rows of one peptide, with every measure and frequency
DupRows == {GoodRow(Peptides[2], qm, rf, ExampleIri) : qm \in Measures, rf \in Freqs}

\* rows of two peptides
PeptideRows ==
    {GoodRow(d, qm, rf, NaNIri) :
        d \in Range(Peptides), qm \in {"Negative", "Positive"}, rf \in {50, 60}}

\* rows that pass the filter with other values of the filtered columns
OtherGoodRows ==
    LET r == GoodRow(Peptides[1], "Positive", 60, ExampleIri)
    IN  {[r EXCEPT !.host = "Homo sapiens Black"],
         [r EXCEPT !.host = "Homo sapiens Caucasian", !.org = NaN]}

\* rows that fail exactly one of the four predicates
BadRows ==
    LET r == GoodRow(Peptides[1], "Positive", 80, ExampleIri)
    IN  {[r EXCEPT !.ot = "Discontinuous peptide"],
         [r EXCEPT !.org = "Homo sapiens"],
         [r EXCEPT !.host = "Mus musculus"],
         [r EXCEPT !.proc = "Administration in vivo"]}

FilterRows ==
    BadRows \cup OtherGoodRows
        \cup {GoodRow(Peptides[1], "Negative", 50, NaNIri),
              GoodRow(Peptides[2], "Positive", 80, NaNIri)}

IriRows == {GoodRow(Peptides[1], "Positive", 60, iri) : iri \in Iris}

\* the tables the archive may hold
Tables ==
    SeqsUpTo(DupRows, MaxDupRows) \cup SeqsUpTo(PeptideRows, MaxRows)
        \cup SeqsUpTo(FilterRows, MaxFilterRows) \cup {<<r>> : r \in IriRows}

\* ------------------------------------------------------------------- state
NoFile == [written |-> FALSE, rows |-> <<>>]

Init ==
    /\ pc = "start"
    /\ status = 0
    /\ size = 0
    /\ table = <<>>
    /\ idx = <<>>
    /\ df = <<>>
    /\ csv = NoFile

\* get_epitopes: the download, then the two checks
GetEpitopes ==
    /\ pc = "start"
    /\ \E s \in Statuses, z \in Sizes :
          /\ status' = s
          /\ size' = z
          /\ pc' = GetEpitopesOutcome(s, z)
    /\ UNCHANGED <<table, idx, df, csv>>

\* filter_epitopes on an archive whose table has the expected columns
FilterEpitopes ==
    /\ pc = "downloaded"
    /\ \E t \in Tables :
          /\ table' = t
          /\ idx' = KeptLabels(t)
          /\ df' = Frame(t, KeptLabels(t))
    /\ pc' = "filtered"
    /\ UNCHANGED <<status, size, csv>>

\* filter_epitopes on an archive that lacks a column: the table access raises
FilterFails ==
    /\ pc = "downloaded"
    /\ pc' = "SchemaError"
    /\ UNCHANGED <<status, size, table, idx, df, csv>>

\* df.to_csv(path_to_save, index=False)
WriteCsv ==
    /\ pc = "filtered"
    /\ csv' = [written |-> TRUE, rows |-> df]
    /\ pc' = "done"
    /\ UNCHANGED <<status, size, table, idx, df>>

Next == GetEpitopes \/ FilterEpitopes \/ FilterFails \/ WriteCsv

Spec == Init /\ [][Next]_vars

\* ------------------------------------------------------------------ claims
\* The terms of the claims, stated on the raw table and on the result.

\* filter_epitopes has just returned its table
Filtered == pc = "filtered"

\* the rows that satisfy the four initial predicates
Passing ==
    {i \in 1..Len(table) :
        /\ table[i].ot = "Linear peptide"
        /\ table[i].org # "Homo sapiens"
        /\ table[i].host \in
              {"Homo sapiens", "Homo sapiens Black", "Homo sapiens Caucasian"}
        /\ table[i].proc = "Occurrence of infectious disease"}

\* the rows left by the exact-duplicate removal of step 2
Survivors ==
    LET P == Passing
    IN  {i \in P :
            \A j \in P :
                j < i => <<table[j].desc, table[j].qm>> # <<table[i].desc, table[i].qm>>}

\* the duplicate-description set D and its peptide descriptions
D ==
    LET S == Survivors
    IN  {i \in S : \E j \in S : j # i /\ table[j].desc = table[i].desc}
DPeptides == {table[i].desc : i \in D}

\* the positive candidates of a peptide description
Candidates(p) ==
    {i \in D : /\ table[i].desc = p
               /\ table[i].qm # "Negative"
               /\ table[i].rf # NaNFreq
               /\ table[i].rf > 50}

\* the input rows of a peptide description that are in the output, and the
\* output rows that carry it
KeptOf(p) == {i \in Range(idx) : table[i].desc = p}
OutOf(p) == {k \in 1..Len(df) : df[k].Peptide = p}

\* C1: the table returned by filter_epitopes holds no two rows with the same
\* (Peptide, Immunogenicity) pair.
C1_NoDuplicatePairs ==
    Filtered =>
        \A j, k \in 1..Len(df) :
            j # k => <<df[j].Peptide, df[j].Immunogenicity>>
                        # <<df[k].Peptide, df[k].Immunogenicity>>

\* two passing input rows share a pair, and rows are output
C1_Witness ==
    /\ pc = "filtered"
    /\ Len(df) >= 1
    /\ \E i, j \in Passing :
          i < j /\ table[i].desc = table[j].desc /\ table[i].qm = table[j].qm

\* the case of C2: the passing rows of p are exactly three, a Negative row,
\* a Positive row of frequency 60 (row a) and one of frequency 80 (row b)
C2_Case(p, a, b) ==
    LET rows == {i \in Passing : table[i].desc = p}
    IN  /\ table[a].qm = "Positive" /\ table[a].rf = 60
        /\ table[b].qm = "Positive" /\ table[b].rf = 80
        /\ {a, b} \subseteq rows
        /\ Cardinality(rows) = 3
        /\ \E n \in rows : table[n].qm = "Negative"

\* C2 as stated: in any input order the output keeps exactly the Positive
\* row of frequency 60 for that peptide.
C2_KeepsFrequency60 ==
    Filtered =>
        \A p \in Range(Peptides) : \A a, b \in 1..Len(table) :
            C2_Case(p, a, b) => KeptOf(p) = {a} /\ Cardinality(OutOf(p)) = 1

\* C2 amended: the output keeps exactly one row for that peptide, the one of
\* the two Positive rows that comes first in the input (the other is removed
\* as an exact duplicate of the pair before frequencies are compared).
C2_KeepsFirstPositive ==
    Filtered =>
        \A p \in Range(Peptides) : \A a, b \in 1..Len(table) :
            C2_Case(p, a, b) =>
                /\ KeptOf(p) = {IF a < b THEN a ELSE b}
                /\ Cardinality(OutOf(p)) = 1
                /\ \A k \in OutOf(p) : df[k].Immunogenicity = "Positive"

\* the frequency-80 row precedes the frequency-60 row and is the one kept
C2_Witness ==
    /\ pc = "filtered"
    /\ \E p \in Range(Peptides) : \E a, b \in 1..Len(table) :
          C2_Case(p, a, b) /\ b < a /\ KeptOf(p) = {b}

\* C3: every output row has an Immunogenicity that is not missing.
C3_NoMissingMeasure ==
    Filtered => \A k \in 1..Len(df) : df[k].Immunogenicity # NaN

\* C4: a status other than 200 ends in the download error whatever the size,
\* status 200 with fewer than 1,000,000 bytes ends in the incomplete-download
\* error, 1,000,000 bytes or more pass; the CSV is written only once both
\* checks passed and the filter returned, and holds the filter's table.
C4_ChecksBeforeWrite ==
    /\ pc # "start" /\ status # 200 => pc = "DownloadError"
    /\ pc # "start" /\ status = 200 /\ size < 1000000 => pc = "IncompleteDownload"
    /\ pc # "start" /\ status = 200 /\ size >= 1000000 =>
          pc \in {"downloaded", "filtered", "done", "SchemaError"}
    /\ csv.written =>
          pc = "done" /\ status = 200 /\ size >= 1000000 /\ csv.rows = df
    /\ pc \in {"DownloadError", "IncompleteDownload", "SchemaError"} => csv = NoFile

\* a file of exactly 1,000,000 bytes went through and a non-empty CSV is written
C4_Witness == pc = "done" /\ size = 1000000 /\ csv.written /\ Len(csv.rows) > 0

\* C5: a peptide description of D has at most one row in the output.
C5_AtMostOnePerDuplicate ==
    Filtered => \A p \in DPeptides : Cardinality(OutOf(p)) <= 1

\* a peptide of D with two positive candidates has one output row
C5_Witness ==
    /\ pc = "filtered"
    /\ \E p \in DPeptides : Cardinality(Candidates(p)) >= 2 /\ Cardinality(OutOf(p)) = 1

\* sp is what follows the last "/" of s (all of s when it has none)
IsLastSegment(sp, s) ==
    \E n \in 0..Len(s) :
        /\ n = 0 \/ s[n] = "/"
        /\ \A j \in (n + 1)..Len(s) : s[j] # "/"
        /\ sp = [j \in 1..(Len(s) - n) |-> s[n + j]]

ExampleProtein == <<"P", "R", "_", "0", "0", "0", "0", "1", "2", "3", "4", "5">>

\* C6: Source_Protein of an output row is what follows the last "/" of the
\* string form of its Parent Protein IRI: PR_000012345 for the example, nan
\* for a missing IRI.
C6_SourceProtein ==
    Filtered =>
        \A k \in 1..Len(df) :
            LET iri == table[idx[k]].iri
                sp == df[k].Source_Protein
            IN  /\ iri = NaNIri => sp = <<"n", "a", "n">>
                /\ iri # NaNIri => IsLastSegment(sp, iri)
                /\ iri = ExampleIri => sp = ExampleProtein

\* an output row whose IRI has several slashes and ends in one
C6_Witness ==
    /\ pc = "filtered"
    /\ \E k \in 1..Len(df) :
          /\ table[idx[k]].iri = <<"P", "/", "P", "/">>
          /\ df[k].Source_Protein = <<>>

\* C7: a peptide of D with a positive candidate has exactly one output row,
\* a positive candidate of the smallest Response Frequency among its positive
\* candidates; no other row of the peptide is output.
C7_SmallestPositive ==
    Filtered =>
        \A p \in DPeptides :
            LET cand == Candidates(p)
            IN  cand # {} =>
                /\ Cardinality(OutOf(p)) = 1
                /\ \E i \in cand :
                      /\ \A j \in cand : table[i].rf <= table[j].rf
                      /\ KeptOf(p) = {i}
                      /\ \A k \in OutOf(p) : df[k].Immunogenicity = table[i].qm

\* a Negative row, then a candidate of frequency 80, then one of frequency
\* 60 which is the one kept
C7_Witness ==
    /\ pc = "filtered"
    /\ \E p \in DPeptides : \E n, a, b \in D :
          /\ n < a /\ a < b
          /\ table[n].desc = p /\ table[n].qm = "Negative"
          /\ {a, b} \subseteq Candidates(p)
          /\ table[a].rf = 80 /\ table[b].rf = 60
          /\ KeptOf(p) = {b}

\* C8: a peptide of D with no positive candidate is output as exactly its
\* Negative rows: one row when it has a Negative row, none otherwise.
C8_NegativeFallback ==
    Filtered =>
        \A p \in DPeptides :
            Candidates(p) = {} =>
                LET neg == {i \in D : table[i].desc = p /\ table[i].qm = "Negative"}
                IN  /\ KeptOf(p) = neg
                    /\ Cardinality(neg) <= 1
                    /\ Cardinality(OutOf(p)) = Cardinality(neg)
                    /\ \A k \in OutOf(p) : df[k].Immunogenicity = "Negative"

\* a peptide of D with two non-Negative rows of frequency at most 50 or
\* missing, and no row of it in the output
C8_Witness ==
    /\ pc = "filtered"
    /\ \E p \in DPeptides : \E a, b \in D :
          /\ a # b /\ table[a].desc = p /\ table[b].desc = p
          /\ table[a].rf = 50 /\ table[b].rf = NaNFreq
          /\ \A i \in D : table[i].desc = p => table[i].qm # "Negative"
          /\ Candidates(p) = {}
          /\ OutOf(p) = {}

\* C9: a row left by the filter and the exact-duplicate removal whose
\* description is then unique is output, whatever its measure and frequency;
\* a peptide whose passing rows all carry one measure is output as its first
\* passing row.
C9_UniquePassThrough ==
    Filtered =>
        /\ \A i \in Survivors \ D :
              \E k \in 1..Len(idx) :
                  /\ idx[k] = i
                  /\ df[k].Peptide = table[i].desc
                  /\ df[k].Immunogenicity = table[i].qm
        /\ \A p \in Range(Peptides) :
              LET rows == {i \in Passing : table[i].desc = p}
              IN  (rows # {} /\ \A i, j \in rows : table[i].qm = table[j].qm) =>
                      /\ KeptOf(p) = {CHOOSE i \in rows : \A j \in rows : i <= j}
                      /\ Cardinality(OutOf(p)) = 1

\* two Negative rows of one peptide collapse to the first, which is output,
\* beside a unique row that is no positive candidate
C9_Witness ==
    /\ pc = "filtered"
    /\ \E i, j \in Passing :
          /\ i < j /\ table[i].desc = table[j].desc
          /\ table[i].qm = "Negative" /\ table[j].qm = "Negative"
          /\ KeptOf(table[i].desc) = {i}
    /\ \E i \in Survivors \ D :
          table[i].qm = "Positive" /\ table[i].rf = 50 /\ i \in Range(idx)

\* C10: every output row is the row of an input row that satisfies the four
\* initial predicates, and the output rows are in the order of their input
\* rows.
C10_FilteredInOrder ==
    Filtered =>
        /\ Len(idx) = Len(df)
        /\ \A k \in 1..Len(df) :
              /\ idx[k] \in 1..Len(table)
              /\ idx[k] \in Passing
              /\ df[k].Peptide = table[idx[k]].desc
              /\ df[k].Immunogenicity = table[idx[k]].qm
              /\ df[k].HLA_Allele = table[idx[k]].allele
              /\ df[k].Source_Name = table[idx[k]].org
        /\ \A j, k \in 1..Len(idx) : j < k => idx[j] < idx[k]

\* two rows of D are output, and the tie-break sort puts the second one's
\* peptide first
C10_Witness ==
    /\ pc = "filtered"
    /\ Len(df) = 2
    /\ {idx[1], idx[2]} \subseteq D
    /\ DescRank(df[2].Peptide) < DescRank(df[1].Peptide)

====
